---- MODULE Spec2Model ----
(***************************************************************************)
(* Model of src-tauri/src/python_backend.rs: the supervisor of the Python  *)
(* backend process.  The state is the slot PythonBackend.process           *)
(* (Mutex<Option<Child>>), the OS processes the handles refer to, and the  *)
(* position of every command invocation inside its handler.               *)
(*                                                                         *)
(* Each command body runs between state.process.lock() and the drop of    *)
(* the guard at function exit; the steps in between are the calls the      *)
(* handler makes (try_wait, current_dir, spawn, the store, take, kill,     *)
(* wait).  OS calls that can fail pick their outcome nondeterministically. *)
(* lock() only fails on a poisoned mutex, i.e. after a panic while the     *)
(* guard is held; no handler body can panic, so that path has no step.     *)
(*                                                                         *)
(* check_backend_health is modelled as well: it takes no lock, sends one   *)
(* HTTP request and classifies its outcome.                                *)
(*                                                                         *)
(* Spec is the supervisor (Start, Stop, Status and the worker processes),  *)
(* ProbeSpec adds the health prober, FairSpec is the supervisor under the  *)
(* fairness that a fair lock and a terminating kill provide.               *)
(***************************************************************************)
EXTENDS Integers, FiniteSets, Sequences, TLC

\* ---------------------------------------------------------------- bounds
NumThreads == 2
MaxSpawn == 2

Threads == 1..NumThreads
Handles == 1..MaxSpawn
None == 0

VARIABLES
    process,    \* PythonBackend.process: None or the handle held in the slot
    lock,       \* owner of the Mutex guard, or None
    pc,         \* pc[t]: position of invocation t inside its handler
    child,      \* child[t]: the handler's local `child` (an owned handle)
    result,     \* result[t]: the value the handler is about to return
    procState,  \* procState[h]: OS state of the process behind handle h
    nextPid,    \* next handle identity handed out by spawn
    slot0,      \* history: slot content when t acquired the lock
    tw,         \* history: outcome of the try_wait made by this call
    seen,       \* history: OS state of the process when try_wait ran
    spawned,    \* history: handle spawned by this call
    sig,        \* history: this call invoked kill
    healed,     \* history: Status cleared the slot and no Start began since
    healed0,    \* history: value of healed when t acquired the lock
    oserr,      \* history: some try_wait, kill or wait has returned Err
    rival,      \* history: handle a concurrent call of the same command took/stored
    scen,       \* history: how far the last returned calls follow Start,Status,Stop,Status
    scenH,      \* history: the handle started by that Start
    resp,       \* resp[t]: the outcome of the HTTP request of check_backend_health
    reqs,       \* history: number of HTTP requests sent by this call
    track       \* whether healed, oserr, rival and scen are being recorded

vars == <<process, lock, pc, child, result, procState, nextPid,
          slot0, tw, seen, spawned, sig, healed, healed0,
          oserr, rival, scen, scenH, resp, reqs, track>>

hist == <<slot0, tw, seen, spawned, sig, healed0>>

\* history of the scenario monitor and state of the health prober
mon == <<scen, scenH>>
net == <<resp, reqs>>

\* An invocation that has been issued and is blocked in state.process.lock().
LockPcs == {"start_lock", "stop_lock", "status_lock"}

StartPcs == {"start_check", "start_dir", "start_spawn", "start_store", "start_ret"}
StopPcs == {"stop_take", "stop_kill", "stop_wait", "stop_ret"}
StatusPcs == {"status_check", "status_ret"}
HealthPcs == {"health_send", "health_ret"}

StartErrors == {"AlreadyRunning", "CurrentDirFailed", "SpawnFailed"}
StopErrors == {"NotRunning", "TerminationFailed", "WaitFailed"}
StatusErrors == {"StatusCheckFailed"}

\* ------------------------------------------------------- OS process calls

\* Child::try_wait: Ok(None) while the process runs, Ok(Some(status)) once
\* it has exited, Err when the OS query itself fails (in either case).
TryWaitOutcomes(st) ==
    IF st = "exited" THEN {"exited", "error"} ELSE {"running", "error"}

\* Child::kill: Ok(()) or Err.  A delivered SIGKILL makes a running process
\* terminate; it has no effect on a process that already exited.
KillOutcomes == {"ok", "error"}

KillEffect(st) ==
    IF st = "running" THEN "killed" ELSE st

\* Child::wait blocks until the process has exited, then returns Ok.
WaitReturnsMut(st) == TRUE

WaitReturns(st) == st = "exited"

\* ------------------------------------------------- decisions of the code

\* start_python_backend: `if let Ok(None) = child.try_wait()` returns the
\* AlreadyRunning error; every other outcome falls through to the spawn.
StartRefusesMut(o) == FALSE

StartRefuses(o) == o = "running"

\* start_python_backend: `*process_guard = Some(child);`
StoreSlotMut(old, new) == IF old = None THEN new ELSE old

StoreSlotDropped(old, new) == old

StoreSlot(old, new) == new

\* stop_python_backend: `process_guard.take()` leaves None in the slot.
StopTakeSlotMut(s) == s

StopTakeSlot(s) == None

\* stop_python_backend: `if let Some(mut child) = process_guard.take()`
\* looks only at whether the slot is occupied (st is the OS state of the
\* held process, which the code does not consult).
StopFindsHandleIfAlive(s, st) == s # None /\ st # "exited"

StopFindsHandle(s, st) == s # None

\* stop_python_backend: the else branch, taken when the slot is empty.
StopNoneResultMut == "Stopped"

StopNoneResult == "NotRunning"

\* is_backend_running: the value returned for each try_wait outcome.
StatusResultMut(o) ==
    CASE o = "running" -> "True"
      [] o = "exited" -> "True"
      [] OTHER -> "StatusCheckFailed"

StatusResultErrIsFalse(o) ==
    CASE o = "running" -> "True"
      [] OTHER -> "False"

StatusResult(o) ==
    CASE o = "running" -> "True"
      [] o = "exited" -> "False"
      [] OTHER -> "StatusCheckFailed"

\* is_backend_running: `*process_guard = None;` only in the Ok(Some(_)) arm.
StatusSlotNoClear(o, s) == s

StatusSlotClearOnError(o, s) == IF o \in {"exited", "error"} THEN None ELSE s

StatusSlot(o, s) == IF o = "exited" THEN None ELSE s

\* The local `child` of stop_python_backend goes out of scope (is dropped)
\* on every path that leaves the `if let` block.
DropLocalMut(c) == c

DropLocal(c) == None

\* ------------------------------------------------- check_backend_health

\* Status codes an endpoint may answer with, and the transport failures of
\* `.send().await` (connection refused, timeout).
StatusCodes == {200, 204, 404, 503}

Responses ==
    {[kind |-> "http", code |-> c] : c \in StatusCodes}
        \cup {[kind |-> k, code |-> 0] : k \in {"refused", "timeout"}}

NoResp == [kind |-> "none", code |-> 0]

\* response.status().is_success(): the 2xx range.
IsSuccess(c) == c >= 200 /\ c < 300

\* The match on the result of send(): Ok(response) with a success status,
\* Ok(response) with another status, Err(e).
HealthResultAnyResponse(r) ==
    IF r.kind = "http" THEN "Healthy" ELSE "Unreachable"

HealthResult(r) ==
    IF r.kind = "http"
    THEN IF IsSuccess(r.code) THEN "Healthy" ELSE "UnhealthyStatus"
    ELSE "Unreachable"

\* check_backend_health has no access to the mutex: the owner is unchanged.
HealthLockTaken(l, t) == t

HealthLock(l, t) == l

\* Mutex::lock returns only when no other guard exists.
LockFreeMut(l) == TRUE

LockFree(l) == l = None

\* The guard `process_guard` is dropped when the handler returns, on the
\* success path and on every early `?` / `return Err` path alike.
ReleaseLockMut(l) == l

ReleaseLock(l) == None

\* The history variables healed, oserr, rival and scen only record what
\* happened; no guard reads them.  They take their new value when the
\* history is being recorded and keep their old one otherwise.
Hist(new, old) == IF track THEN new ELSE old

\* ------------------------------------------------------------------ Init
\* PythonBackend::new(): the slot is empty, no command is running.
InitState ==
    /\ process = None
    /\ lock = None
    /\ pc = [t \in Threads |-> "idle"]
    /\ child = [t \in Threads |-> None]
    /\ result = [t \in Threads |-> "none"]
    /\ procState = [h \in Handles |-> "unborn"]
    /\ nextPid = 1
    /\ slot0 = [t \in Threads |-> None]
    /\ tw = [t \in Threads |-> "none"]
    /\ seen = [t \in Threads |-> "none"]
    /\ spawned = [t \in Threads |-> None]
    /\ sig = [t \in Threads |-> FALSE]
    /\ healed = FALSE
    /\ healed0 = [t \in Threads |-> FALSE]
    /\ oserr = FALSE
    /\ rival = [t \in Threads |-> None]
    /\ scen = 0
    /\ scenH = None
    /\ resp = [t \in Threads |-> NoResp]
    /\ reqs = [t \in Threads |-> 0]

Init == InitState /\ track = TRUE

\* The handle a pending call of command `at` records as taken (Stop) or
\* stored on an empty slot (Start) by a call of the same command that is
\* still inside its body when this call is issued.
RivalAtCall(at) ==
    IF lock = None THEN None
    ELSE IF /\ at = "stop_lock"
            /\ pc[lock] \in {"stop_kill", "stop_wait", "stop_ret"}
            /\ slot0[lock] # None
         THEN slot0[lock]
    ELSE IF /\ at = "start_lock"
            /\ pc[lock] = "start_ret"
            /\ result[lock] = "Started"
            /\ slot0[lock] = None
         THEN process
    ELSE None

\* The host invokes a command: the handler starts and reaches lock().
Call(t, at) ==
    /\ pc[t] = "idle"
    /\ pc' = [pc EXCEPT ![t] = at]
    /\ rival' = Hist([rival EXCEPT ![t] = RivalAtCall(at)], rival)
    /\ UNCHANGED <<process, lock, child, result, procState, nextPid, hist,
                   healed, oserr, mon, net, track>>

\* state.process.lock(): blocks until the mutex is free.
Acquire(t, at, first) ==
    /\ pc[t] = at
    /\ LockFree(lock)
    /\ lock' = t
    /\ pc' = [pc EXCEPT ![t] = first]
    /\ slot0' = [slot0 EXCEPT ![t] = process]
    /\ healed0' = [healed0 EXCEPT ![t] = healed]
    /\ UNCHANGED <<process, child, result, procState, nextPid, tw, seen,
                   spawned, sig, oserr, mon, net, track>>

\* ------------------------------------------------- start_python_backend
StartCall(t) == Call(t, "start_lock")

StartLock(t) ==
    /\ Acquire(t, "start_lock", "start_check")
    /\ healed' = Hist(FALSE, healed)
    /\ rival' = Hist([u \in Threads |->
                        IF pc[u] = "stop_lock" THEN None ELSE rival[u]], rival)

StartCheck(t) ==
    /\ pc[t] = "start_check"
    /\ IF process = None
       THEN /\ pc' = [pc EXCEPT ![t] = "start_dir"]
            /\ UNCHANGED <<result, tw, seen, oserr>>
       ELSE \E o \in TryWaitOutcomes(procState[process]) :
            /\ tw' = [tw EXCEPT ![t] = o]
            /\ seen' = [seen EXCEPT ![t] = procState[process]]
            /\ oserr' = Hist(oserr \/ o = "error", oserr)
            /\ IF StartRefuses(o)
               THEN /\ pc' = [pc EXCEPT ![t] = "start_ret"]
                    /\ result' = [result EXCEPT ![t] = "AlreadyRunning"]
               ELSE /\ pc' = [pc EXCEPT ![t] = "start_dir"]
                    /\ UNCHANGED result
    /\ UNCHANGED <<process, lock, child, procState, nextPid, slot0, spawned,
                   sig, healed, healed0, rival, mon, net, track>>

StartDir(t) ==
    /\ pc[t] = "start_dir"
    /\ \/ /\ pc' = [pc EXCEPT ![t] = "start_spawn"]
          /\ UNCHANGED result
       \/ /\ pc' = [pc EXCEPT ![t] = "start_ret"]
          /\ result' = [result EXCEPT ![t] = "CurrentDirFailed"]
    /\ UNCHANGED <<process, lock, child, procState, nextPid, hist, healed,
                   oserr, rival, mon, net, track>>

StartSpawn(t) ==
    /\ pc[t] = "start_spawn"
    /\ \/ /\ nextPid <= MaxSpawn
          /\ procState' = [procState EXCEPT ![nextPid] = "running"]
          /\ child' = [child EXCEPT ![t] = nextPid]
          /\ spawned' = [spawned EXCEPT ![t] = nextPid]
          /\ nextPid' = nextPid + 1
          /\ pc' = [pc EXCEPT ![t] = "start_store"]
          /\ UNCHANGED result
       \/ /\ pc' = [pc EXCEPT ![t] = "start_ret"]
          /\ result' = [result EXCEPT ![t] = "SpawnFailed"]
          /\ UNCHANGED <<procState, child, spawned, nextPid>>
    /\ UNCHANGED <<process, lock, slot0, tw, seen, sig, healed, healed0,
                   oserr, rival, mon, net, track>>

StartStore(t) ==
    /\ pc[t] = "start_store"
    /\ process' = StoreSlot(process, child[t])
    /\ child' = [child EXCEPT ![t] = None]
    /\ result' = [result EXCEPT ![t] = "Started"]
    /\ pc' = [pc EXCEPT ![t] = "start_ret"]
    /\ rival' = Hist([u \in Threads |->
                        IF u # t /\ pc[u] = "start_lock" /\ slot0[t] = None
                        THEN child[t] ELSE rival[u]], rival)
    /\ UNCHANGED <<lock, procState, nextPid, hist, healed, oserr, mon, net, track>>

\* -------------------------------------------------- stop_python_backend
StopCall(t) == Call(t, "stop_lock")

StopLock(t) ==
    /\ Acquire(t, "stop_lock", "stop_take")
    /\ UNCHANGED <<healed, rival>>

StopTake(t) ==
    /\ pc[t] = "stop_take"
    /\ IF StopFindsHandle(process, IF process = None THEN "none" ELSE procState[process])
       THEN /\ child' = [child EXCEPT ![t] = process]
            /\ process' = StopTakeSlot(process)
            /\ seen' = [seen EXCEPT ![t] = procState[process]]
            /\ pc' = [pc EXCEPT ![t] = "stop_kill"]
            /\ rival' = Hist([u \in Threads |->
                                IF u # t /\ pc[u] = "stop_lock" THEN process
                                ELSE IF pc[u] = "start_lock" THEN None
                                ELSE rival[u]], rival)
            /\ UNCHANGED result
       ELSE /\ result' = [result EXCEPT ![t] = StopNoneResult]
            /\ pc' = [pc EXCEPT ![t] = "stop_ret"]
            /\ UNCHANGED <<process, child, seen, rival>>
    /\ UNCHANGED <<lock, procState, nextPid, slot0, tw, spawned, sig, healed,
                   healed0, oserr, mon, net, track>>

StopKill(t) ==
    /\ pc[t] = "stop_kill"
    /\ sig' = [sig EXCEPT ![t] = TRUE]
    /\ \E o \in KillOutcomes :
        IF o = "ok"
        THEN /\ procState' = [procState EXCEPT ![child[t]] = KillEffect(@)]
             /\ pc' = [pc EXCEPT ![t] = "stop_wait"]
             /\ UNCHANGED <<child, result, oserr>>
        ELSE /\ result' = [result EXCEPT ![t] = "TerminationFailed"]
             /\ child' = [child EXCEPT ![t] = DropLocal(@)]
             /\ pc' = [pc EXCEPT ![t] = "stop_ret"]
             /\ oserr' = Hist(TRUE, oserr)
             /\ UNCHANGED procState
    /\ UNCHANGED <<process, lock, nextPid, slot0, tw, seen, spawned, healed,
                   healed0, rival, mon, net, track>>

\* child.wait() returns Ok: the process has exited.
StopWaitOk(t) ==
    /\ pc[t] = "stop_wait"
    /\ WaitReturns(procState[child[t]])
    /\ result' = [result EXCEPT ![t] = "Stopped"]
    /\ child' = [child EXCEPT ![t] = DropLocal(@)]
    /\ pc' = [pc EXCEPT ![t] = "stop_ret"]
    /\ UNCHANGED <<process, lock, procState, nextPid, hist, healed, oserr,
                   rival, mon, net, track>>

\* child.wait() returns Err.
StopWaitErr(t) ==
    /\ pc[t] = "stop_wait"
    /\ result' = [result EXCEPT ![t] = "WaitFailed"]
    /\ child' = [child EXCEPT ![t] = DropLocal(@)]
    /\ pc' = [pc EXCEPT ![t] = "stop_ret"]
    /\ oserr' = Hist(TRUE, oserr)
    /\ UNCHANGED <<process, lock, procState, nextPid, hist, healed, rival,
                   mon, net, track>>

StopWait(t) == StopWaitOk(t) \/ StopWaitErr(t)

\* --------------------------------------------------- is_backend_running
StatusCall(t) == Call(t, "status_lock")

StatusLock(t) ==
    /\ Acquire(t, "status_lock", "status_check")
    /\ UNCHANGED <<healed, rival>>

StatusCheck(t) ==
    /\ pc[t] = "status_check"
    /\ IF process = None
       THEN /\ result' = [result EXCEPT ![t] = "False"]
            /\ UNCHANGED <<process, tw, seen, healed, oserr>>
       ELSE \E o \in TryWaitOutcomes(procState[process]) :
            /\ tw' = [tw EXCEPT ![t] = o]
            /\ seen' = [seen EXCEPT ![t] = procState[process]]
            /\ process' = StatusSlot(o, process)
            /\ result' = [result EXCEPT ![t] = StatusResult(o)]
            /\ healed' = Hist(healed \/ o = "exited", healed)
            /\ oserr' = Hist(oserr \/ o = "error", oserr)
    /\ pc' = [pc EXCEPT ![t] = "status_ret"]
    /\ UNCHANGED <<lock, child, procState, nextPid, slot0, spawned, sig,
                   healed0, rival, mon, net, track>>

\* ------------------------------------------------------ function return
\* Progress of the returned calls along Start, Status, Stop, Status: a
\* Start that succeeded without an OS error, then a Status that returned
\* true, then a Stop that succeeded; any other returned call starts over.
ScenNext(t) ==
    IF pc[t] = "start_ret" /\ result[t] = "Started" /\ tw[t] # "error"
        THEN <<1, spawned[t]>>
    ELSE IF pc[t] = "status_ret" /\ scen = 1 /\ result[t] = "True"
        THEN <<2, scenH>>
    ELSE IF pc[t] = "stop_ret" /\ scen = 2 /\ result[t] = "Stopped"
        THEN <<3, scenH>>
    ELSE <<0, None>>

\* The handler returns its value: the guard is dropped (the mutex is
\* released) and the invocation's locals are gone.
Return(t) ==
    /\ pc[t] \in {"start_ret", "stop_ret", "status_ret"}
    /\ lock = t
    /\ lock' = ReleaseLock(lock)
    /\ pc' = [pc EXCEPT ![t] = "idle"]
    /\ result' = [result EXCEPT ![t] = "none"]
    /\ slot0' = [slot0 EXCEPT ![t] = None]
    /\ tw' = [tw EXCEPT ![t] = "none"]
    /\ seen' = [seen EXCEPT ![t] = "none"]
    /\ spawned' = [spawned EXCEPT ![t] = None]
    /\ sig' = [sig EXCEPT ![t] = FALSE]
    /\ healed0' = [healed0 EXCEPT ![t] = FALSE]
    /\ rival' = Hist([rival EXCEPT ![t] = None], rival)
    /\ scen' = Hist(ScenNext(t)[1], scen)
    /\ scenH' = Hist(ScenNext(t)[2], scenH)
    /\ UNCHANGED <<process, child, procState, nextPid, healed, oserr, net, track>>

\* --------------------------------------------------- check_backend_health
\* The handler takes no State parameter: it starts whoever owns the mutex
\* and leaves the mutex alone.  It builds the client and the GET request.
HealthCall(t) ==
    /\ pc[t] = "idle"
    /\ pc' = [pc EXCEPT ![t] = "health_send"]
    /\ lock' = HealthLock(lock, t)
    /\ UNCHANGED <<process, child, result, procState, nextPid, hist, healed,
                   oserr, rival, mon, net, track>>

\* `.send().await` with the 5 s timeout completes with a response or with a
\* transport error, and the match classifies it.
HealthSend(t) ==
    /\ pc[t] = "health_send"
    /\ \E r \in Responses :
        /\ resp' = [resp EXCEPT ![t] = r]
        /\ result' = [result EXCEPT ![t] = HealthResult(r)]
    /\ reqs' = [reqs EXCEPT ![t] = @ + 1]
    /\ pc' = [pc EXCEPT ![t] = "health_ret"]
    /\ UNCHANGED <<process, lock, child, procState, nextPid, hist, healed,
                   oserr, rival, mon, track>>

HealthReturn(t) ==
    /\ pc[t] = "health_ret"
    /\ pc' = [pc EXCEPT ![t] = "idle"]
    /\ result' = [result EXCEPT ![t] = "none"]
    /\ resp' = [resp EXCEPT ![t] = NoResp]
    /\ reqs' = [reqs EXCEPT ![t] = 0]
    /\ UNCHANGED <<process, lock, child, procState, nextPid, hist, healed,
                   oserr, rival, mon, track>>

\* ----------------------------------------------------------- environment
\* The worker process terminates: on its own at any time, or because a
\* SIGKILL was delivered to it.
ProcExit(h) ==
    /\ procState[h] \in {"running", "killed"}
    /\ procState' = [procState EXCEPT ![h] = "exited"]
    /\ UNCHANGED <<process, lock, pc, child, result, nextPid, hist, healed,
                   oserr, rival, mon, net, track>>

Next ==
    \/ \E t \in Threads : StartCall(t)
    \/ \E t \in Threads : StopCall(t)
    \/ \E t \in Threads : StatusCall(t)
    \/ \E t \in Threads : StartLock(t)
    \/ \E t \in Threads : StartCheck(t)
    \/ \E t \in Threads : StartDir(t)
    \/ \E t \in Threads : StartSpawn(t)
    \/ \E t \in Threads : StartStore(t)
    \/ \E t \in Threads : StopLock(t)
    \/ \E t \in Threads : StopTake(t)
    \/ \E t \in Threads : StopKill(t)
    \/ \E t \in Threads : StopWait(t)
    \/ \E t \in Threads : StatusLock(t)
    \/ \E t \in Threads : StatusCheck(t)
    \/ \E t \in Threads : Return(t)
    \/ \E h \in Handles : ProcExit(h)

\* The supervisor: the three commands that use the lock, and the worker
\* processes, with the full history.
Spec == Init /\ [][Next]_vars

\* The supervisor together with the health prober.  The history of healed,
\* oserr, rival and scen is about the supervisor's commands only and is not
\* recorded here.
InitNoHistory == InitState /\ track = FALSE

ProbeNext ==
    \/ Next
    \/ \E t \in Threads : HealthCall(t)
    \/ \E t \in Threads : HealthSend(t)
    \/ \E t \in Threads : HealthReturn(t)

ProbeSpec == InitNoHistory /\ [][ProbeNext]_vars

TypeOK ==
    /\ process \in Handles \cup {None}
    /\ lock \in Threads \cup {None}
    /\ pc \in [Threads -> {"idle"} \cup LockPcs \cup HealthPcs \cup StartPcs \cup StopPcs \cup StatusPcs]
    /\ child \in [Threads -> Handles \cup {None}]
    /\ procState \in [Handles -> {"unborn", "running", "killed", "exited"}]
    /\ nextPid \in 1..(MaxSpawn + 1)
    /\ healed \in BOOLEAN
    /\ track \in BOOLEAN

\* ======================================================================
\* Properties
\* ======================================================================

\* A Start invocation that has passed its liveness check.
StartPastCheck(t) == pc[t] \in StartPcs \ {"start_check"}

\* A Stop invocation that has passed `process_guard.take()`.
StopPastTake(t) == pc[t] \in StopPcs \ {"stop_take"}

\* C1: a Start whose liveness check reported "still running" returns
\* AlreadyRunning, spawns nothing, sends no signal, and the slot still holds
\* the handle it held when the call began.
C1_StartWhileRunning ==
    \A t \in Threads :
        (StartPastCheck(t) /\ tw[t] = "running") =>
            /\ pc[t] = "start_ret"
            /\ result[t] = "AlreadyRunning"
            /\ spawned[t] = None
            /\ child[t] = None
            /\ ~sig[t]
            /\ process = slot0[t]
            /\ process # None
            /\ procState[process] # "killed"

C1_Witness ==
    \E t \in Threads :
        /\ pc[t] = "start_ret"
        /\ tw[t] = "running"
        /\ result[t] = "AlreadyRunning"
        /\ procState[process] = "running"

\* C2: a Start that found the slot empty, or found the held process exited,
\* is not refused, and if its spawn succeeded it returns success with the
\* slot holding the newly spawned handle, which is not the old one.
C2_StartSpawnsNew ==
    \A t \in Threads :
        (StartPastCheck(t) /\ (slot0[t] = None \/ tw[t] = "exited")) =>
            /\ result[t] # "AlreadyRunning"
            /\ (pc[t] = "start_ret" /\ spawned[t] # None) =>
                  /\ result[t] = "Started"
                  /\ process = spawned[t]
                  /\ process # slot0[t]

C2_Witness ==
    \E t \in Threads :
        /\ pc[t] = "start_ret"
        /\ slot0[t] # None
        /\ tw[t] = "exited"
        /\ spawned[t] # None
        /\ result[t] = "Started"
        /\ process = spawned[t]

\* C3: whenever Start has overwritten a handle that was in the slot, the
\* process of the overwritten handle has exited (for every outcome of the
\* liveness check).
C3_OverwritesOnlyStale ==
    \A t \in Threads :
        (pc[t] = "start_ret" /\ result[t] = "Started" /\ slot0[t] # None) =>
            procState[slot0[t]] = "exited"

\* C4: a Stop that found the slot empty returns NotRunning, invokes no kill,
\* and the slot stays empty.
C4_StopWhenEmpty ==
    \A t \in Threads :
        (StopPastTake(t) /\ slot0[t] = None) =>
            /\ pc[t] = "stop_ret"
            /\ result[t] = "NotRunning"
            /\ ~sig[t]
            /\ child[t] = None
            /\ process = None

C4_Witness ==
    \E t \in Threads :
        /\ pc[t] = "stop_ret"
        /\ slot0[t] = None
        /\ result[t] = "NotRunning"

\* C5: a Stop that found a handle in the slot has emptied the slot before it
\* invokes kill, and the slot is empty when it returns, whatever it returns
\* (Stopped, TerminationFailed or WaitFailed).
C5_StopAlwaysClears ==
    \A t \in Threads :
        (StopPastTake(t) /\ slot0[t] # None) =>
            /\ process = None
            /\ (pc[t] = "stop_kill" => (~sig[t] /\ child[t] = slot0[t]))
            /\ (pc[t] = "stop_ret" =>
                  result[t] \in {"Stopped", "TerminationFailed", "WaitFailed"})

C5_Witness ==
    \E t \in Threads :
        /\ pc[t] = "stop_ret"
        /\ slot0[t] # None
        /\ result[t] = "TerminationFailed"
        /\ procState[slot0[t]] = "running"
        /\ process = None

\* C6: when Stop returns success the slot is empty, kill was invoked before
\* the wait, and the wait observed that the process that was held has exited.
C6_StopSuccessMeansExited ==
    \A t \in Threads :
        /\ (pc[t] = "stop_wait" => (sig[t] /\ process = None))
        /\ (pc[t] = "stop_ret" /\ result[t] = "Stopped") =>
              /\ slot0[t] # None
              /\ sig[t]
              /\ process = None
              /\ child[t] = None
              /\ procState[slot0[t]] = "exited"

C6_Witness ==
    \E t \in Threads :
        /\ pc[t] = "stop_ret"
        /\ result[t] = "Stopped"
        /\ sig[t]
        /\ procState[slot0[t]] = "exited"

\* C7: Status returns true only when the slot held a handle and the liveness
\* check of this call found the process running; it returns false on an
\* empty slot, and on an exited process it clears the slot and returns false.
C7_StatusNeverReportsDeadAsRunning ==
    \A t \in Threads :
        pc[t] = "status_ret" =>
            /\ result[t] = "True" =>
                  /\ slot0[t] # None
                  /\ tw[t] = "running"
                  /\ seen[t] = "running"
                  /\ process = slot0[t]
            /\ slot0[t] = None => (result[t] = "False" /\ process = None)
            /\ tw[t] = "exited" => (result[t] = "False" /\ process = None)

C7_Witness ==
    \E t \in Threads :
        /\ pc[t] = "status_ret"
        /\ slot0[t] # None
        /\ seen[t] = "exited"
        /\ tw[t] = "exited"
        /\ result[t] = "False"

\* A Status call made after an earlier Status cleared the slot, with no
\* Start begun in between: it returns false and makes no liveness query.
LaterStatusWithoutQuery(t) ==
    healed0[t] => (result[t] = "False" /\ tw[t] = "none" /\ slot0[t] = None)

\* C8 (as stated): a Status call that finds the held process exited returns
\* false and clears the slot; later Status calls with no Start in between
\* return false without a liveness query.
C8_Original ==
    \A t \in Threads :
        pc[t] = "status_ret" =>
            /\ (slot0[t] # None /\ seen[t] = "exited") =>
                  (result[t] = "False" /\ process = None)
            /\ LaterStatusWithoutQuery(t)

\* C8 (amended): a Status call that finds the held process exited and whose
\* liveness query does not error returns false and clears the slot; when the
\* query errors it returns StatusCheckFailed and the handle stays.  Later
\* Status calls with no Start in between return false without a query.
C8_StatusHealsOnce ==
    \A t \in Threads :
        pc[t] = "status_ret" =>
            /\ (slot0[t] # None /\ seen[t] = "exited" /\ tw[t] # "error") =>
                  (tw[t] = "exited" /\ result[t] = "False" /\ process = None)
            /\ (slot0[t] # None /\ seen[t] = "exited" /\ tw[t] = "error") =>
                  (result[t] = "StatusCheckFailed" /\ process = slot0[t])
            /\ LaterStatusWithoutQuery(t)

C8_Witness ==
    \E t \in Threads :
        /\ pc[t] = "status_ret"
        /\ healed0[t]
        /\ result[t] = "False"
        /\ tw[t] = "none"
        /\ \E h \in Handles : procState[h] = "exited"

\* Number of places that own a handle: the slot and the handlers' locals.
HolderCount ==
    (IF process = None THEN 0 ELSE 1)
        + Cardinality({t \in Threads : child[t] # None})

\* C9: the slot holds at most one handle; a handle has a single owner (it is
\* never both in the slot and in a handler's local, nor in two locals); and
\* once the operation that removed a handle is about to return or has
\* returned, that handle is held nowhere.
C9_AtMostOneHandle ==
    /\ process \in Handles \cup {None}
    /\ \A t \in Threads : child[t] # None => child[t] # process
    /\ \A t1, t2 \in Threads :
          (t1 # t2 /\ child[t1] # None) => child[t1] # child[t2]
    /\ \A t \in Threads :
          pc[t] \in {"idle", "start_ret", "stop_ret", "status_ret"} =>
              child[t] = None
    /\ \A t \in Threads :
          (pc[t] = "stop_ret" /\ slot0[t] # None) => process # slot0[t]
    /\ lock = None => HolderCount <= 1

C9_Witness ==
    \E t \in Threads :
        /\ pc[t] = "stop_ret"
        /\ slot0[t] # None
        /\ sig[t]
        /\ process = None
        /\ HolderCount = 0

\* C10: a Start or Status call that returns an error leaves the slot as it
\* was when the call began (and a failing Start leaves no spawned process);
\* a failing Stop changes the slot exactly when a handle was held.
C10_NoPartialSuccess ==
    \A t \in Threads :
        /\ (pc[t] = "start_ret" /\ result[t] \in StartErrors) =>
              (process = slot0[t] /\ spawned[t] = None)
        /\ (pc[t] = "status_ret" /\ result[t] \in StatusErrors) =>
              process = slot0[t]
        /\ (pc[t] = "stop_ret" /\ result[t] \in StopErrors) =>
              (process # slot0[t] <=> slot0[t] # None)

C10_Witness ==
    \E t \in Threads :
        /\ pc[t] = "start_ret"
        /\ result[t] = "SpawnFailed"
        /\ slot0[t] # None
        /\ tw[t] = "exited"
        /\ process = slot0[t]

\* C11: when the liveness query made by Status itself errors, Status returns
\* StatusCheckFailed (neither true nor false) and the slot still holds the
\* same handle; Status returns that error in no other case, in particular
\* not when the query reports that the process has exited.
C11_StatusCheckFailed ==
    \A t \in Threads :
        pc[t] = "status_ret" =>
            /\ tw[t] = "error" =>
                  /\ result[t] = "StatusCheckFailed"
                  /\ slot0[t] # None
                  /\ process = slot0[t]
            /\ result[t] = "StatusCheckFailed" => tw[t] = "error"
            /\ tw[t] = "exited" => result[t] = "False"

C11_Witness ==
    \E t \in Threads :
        /\ pc[t] = "status_ret"
        /\ tw[t] = "error"
        /\ seen[t] = "running"
        /\ result[t] = "StatusCheckFailed"
        /\ process = slot0[t]

\* A Start, Stop or Status invocation between acquiring and releasing the lock.
InBody(t) == pc[t] \in StartPcs \cup StopPcs \cup StatusPcs

\* C12: Start, Stop and Status exclude one another over their whole bodies:
\* an invocation is inside its body (liveness check, spawn, store, take,
\* kill, blocking wait, return value) exactly while it owns the lock, so no
\* two invocations are inside their bodies at the same instant.
C12_MutualExclusion ==
    /\ \A t \in Threads : InBody(t) <=> lock = t
    /\ \A t1, t2 \in Threads : (InBody(t1) /\ InBody(t2)) => t1 = t2

C12_Witness ==
    \E t, u \in Threads :
        /\ pc[t] = "stop_wait"
        /\ lock = t
        /\ procState[child[t]] = "killed"
        /\ pc[u] \in LockPcs

\* C13: Scenario A.  After a Start that succeeded, the next call to return,
\* if it is a Status whose query does not error while the started process is
\* alive, returns true; after that, the next call, if it is a Stop whose
\* kill and wait do not error, succeeds; after that, the next call, if it is
\* a Status, returns false.  A Start on an empty slot succeeds unless
\* current_dir or spawn fails.
C13_ScenarioA ==
    \A t \in Threads :
        /\ (pc[t] = "start_ret" /\ slot0[t] = None
                /\ result[t] \notin {"CurrentDirFailed", "SpawnFailed"}) =>
              (result[t] = "Started" /\ process = spawned[t])
        /\ (pc[t] = "status_ret" /\ scen = 1 /\ tw[t] # "error"
                /\ procState[scenH] = "running") =>
              (result[t] = "True" /\ process = scenH)
        /\ (pc[t] = "stop_ret" /\ scen = 2
                /\ result[t] \notin {"TerminationFailed", "WaitFailed"}) =>
              (result[t] = "Stopped" /\ slot0[t] = scenH /\ process = None)
        /\ (pc[t] = "status_ret" /\ scen = 3) =>
              (result[t] = "False" /\ tw[t] = "none")

C13_Witness ==
    \E t \in Threads :
        /\ pc[t] = "status_ret"
        /\ scen = 3
        /\ ~oserr
        /\ procState[scenH] = "exited"
        /\ result[t] = "False"

\* C14: CheckHealth sends exactly one request and classifies its outcome:
\* a response with a 2xx status is healthy, a response with any other status
\* is UnhealthyStatus, a transport failure (refused, timeout) is Unreachable.
C14_HealthClassification ==
    \A t \in Threads :
        /\ pc[t] = "health_send" => reqs[t] = 0
        /\ pc[t] = "health_ret" =>
              /\ reqs[t] = 1
              /\ (resp[t].kind = "http" /\ resp[t].code \in 200..299) =>
                    result[t] = "Healthy"
              /\ (resp[t].kind = "http" /\ resp[t].code \notin 200..299) =>
                    result[t] = "UnhealthyStatus"
              /\ resp[t].kind \in {"refused", "timeout"} =>
                    result[t] = "Unreachable"

C14_Witness ==
    \E t \in Threads :
        /\ pc[t] = "health_ret"
        /\ resp[t] = [kind |-> "http", code |-> 503]
        /\ result[t] = "UnhealthyStatus"
        /\ reqs[t] = 1

\* A step taken by a CheckHealth invocation of t.
HealthStep(t) ==
    /\ pc'[t] # pc[t]
    /\ (pc[t] \in HealthPcs \/ pc'[t] \in HealthPcs)

\* C15: a CheckHealth invocation never owns the lock, none of its steps
\* changes the lock, the slot, a handler's handle or a process, and its
\* result is healthy exactly when the response has a 2xx status, whatever
\* the slot holds and whoever owns the lock.
C15_HealthIndependent ==
    /\ [](\A t \in Threads :
            /\ pc[t] \in HealthPcs => (lock # t /\ ~InBody(t))
            /\ pc[t] = "health_ret" =>
                  (result[t] = "Healthy" <=>
                      (resp[t].kind = "http" /\ resp[t].code \in 200..299)))
    /\ [][\A t \in Threads :
            HealthStep(t) =>
                /\ lock' = lock
                /\ process' = process
                /\ child' = child
                /\ procState' = procState]_vars

C15_Witness ==
    \E t, u \in Threads :
        /\ pc[t] = "stop_wait"
        /\ lock = t
        /\ procState[child[t]] = "killed"
        /\ pc[u] = "health_ret"
        /\ result[u] = "Healthy"

\* C16: a Stop that was pending while another Stop took the handle, with no
\* Start acquiring the lock in between, enters its body only when no other
\* call is inside its body, finds the slot empty, returns NotRunning and
\* invokes no kill; while it is pending the handle is not in the slot.
C16_NoDoubleKill ==
    \A t \in Threads :
        /\ (pc[t] = "stop_lock" /\ rival[t] # None) => process # rival[t]
        /\ (StopPastTake(t) /\ rival[t] # None) =>
              /\ pc[t] = "stop_ret"
              /\ slot0[t] = None
              /\ result[t] = "NotRunning"
              /\ ~sig[t]
              /\ child[t] = None
              /\ \A u \in Threads : InBody(u) => u = t

C16_Witness ==
    \E t \in Threads :
        /\ pc[t] = "stop_ret"
        /\ rival[t] # None
        /\ procState[rival[t]] = "exited"
        /\ result[t] = "NotRunning"

\* C17: a Start that was pending while another Start spawned and stored a
\* process on an empty slot, with no Stop in between, and with that process
\* still running, returns AlreadyRunning and spawns nothing.
C17_NoDoubleSpawn ==
    \A t \in Threads :
        (StartPastCheck(t) /\ rival[t] # None
            /\ procState[rival[t]] = "running") =>
                /\ pc[t] = "start_ret"
                /\ result[t] = "AlreadyRunning"
                /\ spawned[t] = None

\* The spawned processes that have not exited.
Alive == {h \in Handles : procState[h] \in {"running", "killed"}}

\* C18 (as stated): while no try_wait, kill or wait has errored, in every
\* state every spawned process that is alive is the one the slot's handle
\* refers to.
C18_Original ==
    ~oserr => \A h \in Alive : process = h

\* C18 (amended): while no try_wait, kill or wait has errored, every spawned
\* process that is alive is referred to by the handle in the slot or by the
\* handle in the local of the call that owns the lock (Start between spawn
\* and store, Stop between take and the end of wait); at most one spawned
\* process is alive; with the lock free, an empty slot means none is alive.
C18_NoOrphan ==
    ~oserr =>
        /\ \A h \in Alive :
              \/ process = h
              \/ (lock # None /\ child[lock] = h)
        /\ Cardinality(Alive) <= 1
        /\ (lock = None /\ process = None) => Alive = {}

C18_Witness ==
    /\ ~oserr
    /\ lock = None
    /\ process # None
    /\ Alive = {process}
    /\ \E h \in Handles : procState[h] = "exited"

\* C19: Stop returns NotRunning exactly when the slot was empty when it
\* acquired the lock; a Stop that finds a handle whose process has already
\* exited still takes the handle, invokes kill and, if kill succeeds, wait.
C19_StopIgnoresLiveness ==
    \A t \in Threads :
        /\ pc[t] = "stop_ret" => (result[t] = "NotRunning" <=> slot0[t] = None)
        /\ (StopPastTake(t) /\ slot0[t] # None) =>
              /\ seen[t] # "none"
              /\ process = None
              /\ (pc[t] = "stop_kill" => child[t] = slot0[t])
              /\ (pc[t] \in {"stop_wait", "stop_ret"} => sig[t])
              /\ (pc[t] = "stop_ret" =>
                    result[t] \in {"Stopped", "TerminationFailed", "WaitFailed"})

C19_Witness ==
    \E t \in Threads :
        /\ pc[t] = "stop_ret"
        /\ slot0[t] # None
        /\ seen[t] = "exited"
        /\ sig[t]
        /\ result[t] = "Stopped"

\* ----------------------------------------------------------- fairness
\* A step of a handler that owns the lock and is not blocked.
BodyStep(t) ==
    \/ StartCheck(t) \/ StartDir(t) \/ StartSpawn(t) \/ StartStore(t)
    \/ StopTake(t) \/ StopKill(t) \/ StopWaitOk(t)
    \/ StatusCheck(t) \/ Return(t)

\* A pending call is granted the lock.
LockStep(t) == StartLock(t) \/ StopLock(t) \/ StatusLock(t)

\* A process that was sent SIGKILL terminates.
KilledExit(h) == procState[h] = "killed" /\ ProcExit(h)

\* The handlers run to completion, the lock is granted fairly, and a killed
\* process exits.
FairSpec ==
    /\ InitNoHistory
    /\ [][Next]_vars
    /\ \A t \in Threads : WF_vars(BodyStep(t)) /\ SF_vars(LockStep(t))
    /\ \A h \in Handles : WF_vars(KilledExit(h))

\* C20: every issued Start, Stop and Status call eventually returns; a call
\* that is not inside its body does not own the lock (every return path
\* released it); while a Stop is in its wait no other call is inside its
\* body, so a call issued meanwhile returns only after that Stop.
C20_Progress ==
    /\ \A t \in Threads :
          (pc[t] \in LockPcs \cup StartPcs \cup StopPcs \cup StatusPcs)
              ~> (pc[t] = "idle")
    /\ [](\A t \in Threads : ~InBody(t) => lock # t)
    /\ [](\A t, u \in Threads :
            (pc[u] = "stop_wait" /\ t # u) => ~InBody(t))

C20_Witness ==
    \E t, u \in Threads :
        /\ pc[t] = "stop_wait"
        /\ procState[child[t]] = "killed"
        /\ pc[u] \in {"start_lock", "status_lock"}

====
